---- MODULE Spec2Model ----
(***************************************************************************)
(* Model of rag-yandex-bot/bot.py: the polling loop of main(), the tasks   *)
(* it creates, and the two handlers handle_text_message and                *)
(* handle_callback_query, on a single cooperative event loop.              *)
(***************************************************************************)
EXTENDS Integers, Sequences, FiniteSets, TLC

VARIABLES
    pollPc,         \* where main() is: "init", "exited", "polling", "iter", "sleep1", "sleep5"
    offset,         \* main(): offset
    reqOffset,      \* the offset argument of the get_updates call in flight (or last made)
    pending,        \* how many updates of the current batch the for loop has not reached yet
    seenMax,        \* highest update_id the for loop has seen in the current batch, -1 if none
    caught,         \* what the except clause of the loop caught last: "none", "poll", "iter"
    tasks,          \* the unfinished tasks made by asyncio.create_task, in creation order
    openai_client,  \* TRUE iff OPENROUTER_API_KEY was set (openai_client is not None)
    arrivals,       \* observer: how many updates the for loop has gone through
    log             \* observer: those updates, in the order the for loop reached them

vars == <<pollPc, offset, reqOffset, pending, seenMax, caught, tasks, openai_client,
          arrivals, log>>

----------------------------------------------------------------------------
\* Bounds of the model.
MaxId == 1          \* update_id values are 0..MaxId
MaxBatch == 2       \* longest batch get_updates returns
MaxTasks == 2       \* unfinished tasks at any time
MaxHits == 1        \* longest result list of a vector-store search
MaxEvents == 3      \* updates the for loop goes through in an observed run

----------------------------------------------------------------------------
\* Python values.
None == "None"
Raises == "<raises>"

Max(a, b) == IF a >= b THEN a ELSE b

\* str.startswith
StartsWith(s, p) == Len(s) >= Len(p) /\ SubSeq(s, 1, Len(p)) = p

CmdStart == <<"/", "s", "t", "a", "r", "t">>
CmdHelp == <<"/", "h", "e", "l", "p">>

\* The fixed texts of the replies.
GREETING == "greeting"
UNSUPPORTED == "unsupported-notice"
SEARCHING == "searching"
NOT_CONFIGURED == "not-configured"
NO_INFO == "no-information-found"
GEN_FAILED == "generation-failed"
INTERNAL_ERROR == "internal-error"
EMPTY_ANSWER == "empty-llm-answer"

\* What the generation service can answer with.
ANSWER == "answer-A"
RAW_BODY == "raw-error-body"

----------------------------------------------------------------------------
\* Inbound payloads.  A message is the dict that main() hands to a handler.
Msg(isNull, hasText, text, hasCb, chatIsDict, chat_id, type, hasFrom, login) ==
    [isNull |-> isNull, hasText |-> hasText, text |-> text, hasCb |-> hasCb,
     chatIsDict |-> chatIsDict, chat_id |-> chat_id, type |-> type,
     hasFrom |-> hasFrom, login |-> login]

Question == <<"h", "i">>
HelpMe == CmdHelp \o <<"m", "e">>

TextMsgs ==
    { Msg(FALSE, TRUE, Question, FALSE, TRUE, "c1", "group", TRUE, "u1"),
      Msg(FALSE, TRUE, HelpMe, FALSE, TRUE, "c1", "group", TRUE, "u1"),
      Msg(FALSE, TRUE, CmdStart, FALSE, TRUE, None, "private", TRUE, "u2"),
      Msg(FALSE, TRUE, Question, FALSE, TRUE, None, "group", TRUE, "u1"),
      Msg(FALSE, TRUE, Question, FALSE, FALSE, None, None, TRUE, "u1") }

CallbackMsgs ==
    { Msg(FALSE, FALSE, <<>>, TRUE, TRUE, "c1", "group", TRUE, "u1"),
      Msg(FALSE, FALSE, <<>>, TRUE, TRUE, None, "group", TRUE, "u1"),
      Msg(FALSE, FALSE, <<>>, TRUE, TRUE, None, "private", TRUE, "u2"),
      Msg(FALSE, FALSE, <<>>, TRUE, TRUE, "c1", "group", TRUE, None) }

\* Neither text nor callback_data; and an update whose "message" is null.
OtherMsgs ==
    { Msg(FALSE, FALSE, <<>>, FALSE, TRUE, "c1", "group", TRUE, "u1"),
      Msg(TRUE, FALSE, <<>>, FALSE, FALSE, None, None, FALSE, None) }

Msgs == TextMsgs \cup CallbackMsgs \cup OtherMsgs

\* An update: update_id may be missing from the dict.
Updates == [hasId : BOOLEAN, update_id : 0..MaxId, message : Msgs]

WellFormedUpdates == { u \in Updates : u.hasId \/ u.update_id = 0 }

SeqsUpTo(S, n) == UNION { [1..k -> S] : k \in 0..n }

\* update.get("update_id", 0)
UpdateId(u) == IF u.hasId THEN u.update_id ELSE 0

\* Whether main() creates a task for the update.
Dispatched(u) == ~u.message.isNull /\ (u.message.hasText \/ u.message.hasCb)

----------------------------------------------------------------------------
\* Tasks.
NewTask(kind, m) ==
    [kind |-> kind, msg |-> m, pc |-> "start", chat_id |-> None,
     sent |-> <<>>, calls |-> <<>>, search_results |-> "unset", status |-> 0,
     answer |-> "unset", error_text |-> None, ev |-> 0]

RemoveAt(s, i) == SubSeq(s, 1, i - 1) \o SubSeq(s, i + 1, Len(s))

\* lines 107-112: qdrant_client.search is a synchronous call: the task inside it
\* holds the event loop until it returns.
HoldsLoop(t) == t.pc = "searching"

LoopFree == \A i \in 1..Len(tasks) : ~HoldsLoop(tasks[i])

\* A task runs only when the event loop is free; main() does not await inside
\* its for loop.
CanRun(h) == h \in 1..Len(tasks) /\ LoopFree /\ pollPc # "iter"

SendToSharedChat(t, text, pc) ==
    [t EXCEPT !.sent = Append(@, [to |-> tasks[1].chat_id, text |-> text]), !.pc = pc]

\* await client.send_message(chat_id, text): the call is issued.
Send(t, text, pc) ==
    [t EXCEPT !.sent = Append(@, [to |-> t.chat_id, text |-> text]), !.pc = pc]

\* client.send_message returns its success or failure to the caller.
SendOutcomes == {"ok", "failed"}

\* An awaited call to the embedding provider, the vector store or the generation
\* service is issued.
Call(t, name, pc) == [t EXCEPT !.calls = Append(@, name), !.pc = pc]

----------------------------------------------------------------------------
\* handle_text_message, lines 69-74: the chat the reply goes to, or Raises when
\* chat_info.get fails on a "chat" value that is not a dict.
ResolveChatId(m) ==
    LET chat_id == IF m.chatIsDict THEN m.chat_id ELSE None
    IN  IF chat_id = None /\ m.hasFrom
        THEN IF ~m.chatIsDict THEN Raises
             ELSE IF m.type = "private" THEN m.login ELSE chat_id
        ELSE chat_id

\* handle_callback_query, line 59
CallbackChatId(m) == IF m.hasFrom THEN m.login ELSE None

IsCommandOnlyStart(text) == StartsWith(text, CmdStart)

\* line 82
IsCommand(text) == StartsWith(text, CmdStart) \/ StartsWith(text, CmdHelp)

\* Vector-store hits: a payload has a 'text' key or not, a 'source_file' key or not.
Hits == { [hasText |-> TRUE, hasFile |-> TRUE],
          [hasText |-> TRUE, hasFile |-> FALSE],
          [hasText |-> FALSE, hasFile |-> TRUE] }

\* lines 119-122: result.payload['text'] raises KeyError when the key is missing.
ContextRaises(hits) == \E i \in 1..Len(hits) : ~hits[i].hasText

\* lines 119-122: the context list
Context(hits) ==
    [i \in 1..Len(hits) |->
        [text |-> "text", file |-> IF hits[i].hasFile THEN "file" ELSE "unknown"]]

NoResultsNever(hits) == FALSE

\* line 114: not search_results
NoResults(hits) == hits = <<>>

\* response.status values the generation service answers with
Statuses == {200, 204, 500}

GenFailureReplyLeaks(body) == body

\* line 143: the reply after a response whose status is not 200
GenFailureReply(body) == GEN_FAILED

ExtractAnswerNoDefault(answer) == answer

\* line 135: result.get("answer", ...)
ExtractAnswer(answer) == IF answer = None THEN EMPTY_ANSWER ELSE answer

BeginPipelineNoAck(t) == Call(t, "embed", "embedding")

\* lines 92-93: the RAG flow begins with the acknowledgment
BeginPipeline(t) == Send(t, SEARCHING, "sendAck")

ExceptSilent(t) == [t EXCEPT !.pc = "sendError"]

\* lines 145-147: the except clause of the RAG flow
Except(t) == Send(t, INTERNAL_ERROR, "sendError")

NewOffsetNoMax(off, u) == UpdateId(u) + 1

NewOffsetOffByOne(off, u) == Max(off, UpdateId(u))

\* line 186
NewOffset(off, u) == Max(off, UpdateId(u) + 1)

pollerVars == <<pollPc, offset, reqOffset, pending, seenMax, caught>>

CrashPropagates(h) ==
    /\ tasks' = RemoveAt(tasks, h)
    /\ pollPc' = "sleep5"
    /\ caught' = "iter"
    /\ UNCHANGED <<offset, reqOffset, pending, seenMax, openai_client>>

\* An exception that leaves a handler ends its task and goes no further: the task
\* was created at line 192 and is never awaited.
Crash(h) ==
    /\ tasks' = RemoveAt(tasks, h)
    /\ UNCHANGED <<pollerVars, openai_client>>

FinishStays(h) == UNCHANGED vars

\* The handler returns: its task is finished.
Finish(h) ==
    /\ tasks' = RemoveAt(tasks, h)
    /\ UNCHANGED <<pollerVars, openai_client>>

\* A handler runs to its next await, changing nothing but its own task.
Step(h, t) ==
    /\ tasks' = [tasks EXCEPT ![h] = t]
    /\ UNCHANGED <<pollerVars, openai_client>>

----------------------------------------------------------------------------
\* main()

Init ==
    /\ pollPc = "init"
    /\ offset = 0
    /\ reqOffset = 0
    /\ pending = 0
    /\ seenMax = -1
    /\ caught = "none"
    /\ tasks = <<>>
    /\ openai_client \in BOOLEAN
    /\ arrivals = 0
    /\ log = <<>>

\* line 174: await client.get_updates(offset=offset, limit=10) is issued
IssuePoll ==
    /\ pollPc' = "polling"
    /\ reqOffset' = offset
    /\ caught' = "none"

\* lines 162-168
TestConnection ==
    /\ pollPc = "init"
    /\ \E ok \in BOOLEAN :
          IF ok THEN IssuePoll ELSE pollPc' = "exited" /\ UNCHANGED <<reqOffset, caught>>
    /\ UNCHANGED <<offset, pending, seenMax, tasks, openai_client>>

\* lines 174-180: get_updates returns a batch of n updates
GetUpdatesReturns ==
    /\ pollPc = "polling"
    /\ LoopFree
    /\ \E n \in 0..MaxBatch :
          IF n = 0
          THEN pollPc' = "sleep1" /\ UNCHANGED <<pending, seenMax>>
          ELSE pollPc' = "iter" /\ pending' = n /\ seenMax' = -1
    /\ UNCHANGED <<offset, reqOffset, caught, tasks, openai_client>>

GetUpdatesRaisesSkips ==
    /\ pollPc = "polling"
    /\ LoopFree
    /\ pollPc' = "sleep5"
    /\ caught' = "poll"
    /\ offset' = offset + 1
    /\ UNCHANGED <<reqOffset, pending, seenMax, tasks, openai_client>>

\* lines 174, 196-198: get_updates raises
GetUpdatesRaises ==
    /\ pollPc = "polling"
    /\ LoopFree
    /\ pollPc' = "sleep5"
    /\ caught' = "poll"
    /\ UNCHANGED <<offset, reqOffset, pending, seenMax, tasks, openai_client>>

DispatchFront(ts, message) ==
    IF message.hasText THEN <<NewTask("text", message)>> \o ts
    ELSE IF message.hasCb THEN <<NewTask("callback", message)>> \o ts
    ELSE ts

\* lines 188-194: the tasks after the update's message went through the shape check
Dispatch(ts, message) ==
    IF message.hasText THEN Append(ts, NewTask("text", message))
    ELSE IF message.hasCb THEN Append(ts, NewTask("callback", message))
    ELSE ts

\* The task just created carries the number of the pass that created it (0 when
\* the run is not observed).
Stamped(ts, stamp) ==
    [i \in 1..Len(ts) |-> IF ts[i].ev = 0 THEN [ts[i] EXCEPT !.ev = stamp] ELSE ts[i]]

\* lines 182-194, the body of the for loop for one update; lines 196-198 when
\* it raises
Pass(update, stamp) ==
    LET message == update.message
    IN  /\ Dispatched(update) => Len(tasks) < MaxTasks
        /\ offset' = NewOffset(offset, update)
        /\ seenMax' = Max(seenMax, UpdateId(update))
        /\ IF message.isNull
           THEN \* "text" in None raises TypeError
                /\ pollPc' = "sleep5"
                /\ caught' = "iter"
                /\ pending' = 0
                /\ tasks' = tasks
           ELSE /\ tasks' = Stamped(Dispatch(tasks, message), stamp)
                /\ pending' = pending - 1
                /\ UNCHANGED <<pollPc, caught>>
        /\ UNCHANGED <<reqOffset, openai_client>>

\* lines 180-194, one pass of the for loop over the next update of the batch
Iterate ==
    /\ pollPc = "iter"
    /\ pending > 0
    /\ \E update \in WellFormedUpdates : Pass(update, 0)

\* lines 180, 171-174: the for loop is exhausted, the next poll is issued
NextPoll ==
    /\ pollPc = "iter"
    /\ pending = 0
    /\ IssuePoll
    /\ seenMax' = -1
    /\ UNCHANGED <<offset, pending, tasks, openai_client>>

WakeOnlyAfterEmptyPoll ==
    /\ pollPc = "sleep1"
    /\ LoopFree
    /\ IssuePoll
    /\ seenMax' = -1
    /\ UNCHANGED <<offset, pending, tasks, openai_client>>

\* lines 177-178 and 198: the sleep ends, the next poll is issued
Wake ==
    /\ pollPc \in {"sleep1", "sleep5"}
    /\ LoopFree
    /\ IssuePoll
    /\ seenMax' = -1
    /\ UNCHANGED <<offset, pending, tasks, openai_client>>

Poller == TestConnection \/ GetUpdatesReturns \/ GetUpdatesRaises \/ Iterate \/ NextPoll \/ Wake

----------------------------------------------------------------------------
\* handle_text_message

\* lines 69-93: from the start of the task to its first await
HandleTextStart(h) ==
    /\ CanRun(h)
    /\ tasks[h].kind = "text"
    /\ tasks[h].pc = "start"
    /\ LET t == tasks[h]
           chat_id == ResolveChatId(t.msg)
           text == t.msg.text
           r == [t EXCEPT !.chat_id = chat_id]
       IN  IF chat_id = Raises THEN Crash(h)
           ELSE IF chat_id = None THEN Finish(h)
           ELSE IF IsCommand(text) THEN Step(h, Send(r, GREETING, "sendGreeting"))
           ELSE Step(h, BeginPipeline(r))

\* lines 83-89: the greeting's send returns, the handler returns
GreetingReturns(h) ==
    /\ CanRun(h)
    /\ tasks[h].pc = "sendGreeting"
    /\ \E r \in SendOutcomes : Finish(h)

AfterAckNoReturn(t) ==
    IF ~openai_client
    THEN Call(Send(t, NOT_CONFIGURED, "embedding"), "embed", "embedding")
    ELSE Call(t, "embed", "embedding")

\* lines 96-103: what follows the acknowledgment
AfterAck(t) ==
    IF ~openai_client
    THEN Send(t, NOT_CONFIGURED, "sendFinal")
    ELSE Call(t, "embed", "embedding")

\* line 93: the acknowledgment's send returns
AckReturns(h) ==
    /\ CanRun(h)
    /\ tasks[h].pc = "sendAck"
    /\ \E r \in SendOutcomes : Step(h, AfterAck(tasks[h]))

\* lines 100-112: the embedding request returns or raises; on a vector the
\* synchronous qdrant_client.search is entered without an await
EmbeddingReturns(h) ==
    /\ CanRun(h)
    /\ tasks[h].pc = "embedding"
    /\ \/ Step(h, Call(tasks[h], "search", "searching"))
       \/ Step(h, Except(tasks[h]))

\* lines 114-132: what follows the search result
AfterSearch(t, hits) ==
    LET r == [t EXCEPT !.search_results = IF Len(hits) = 0 THEN "empty" ELSE "hits"]
    IN  IF NoResults(hits) THEN Send(r, NO_INFO, "sendFinal")
        ELSE IF ContextRaises(hits) THEN Except(r)
        ELSE Call(r, "generate", "generating")

\* lines 107-116: qdrant_client.search returns or raises; the event loop is
\* released at the next await
SearchReturns(h) ==
    /\ h \in 1..Len(tasks)
    /\ pollPc # "iter"
    /\ tasks[h].pc = "searching"
    /\ \/ \E hits \in SeqsUpTo(Hits, MaxHits) : Step(h, AfterSearch(tasks[h], hits))
       \/ Step(h, Except(tasks[h]))

\* lines 131-134, 141: session.post returns a response or raises
GenerationReturns(h) ==
    /\ CanRun(h)
    /\ tasks[h].pc = "generating"
    /\ \/ \E status \in Statuses :
             Step(h, [tasks[h] EXCEPT !.status = status,
                                      !.pc = IF status = 200 THEN "readJson" ELSE "readText"])
       \/ Step(h, Except(tasks[h]))

\* lines 134-139: response.json() returns or raises
JsonReturns(h) ==
    /\ CanRun(h)
    /\ tasks[h].pc = "readJson"
    /\ \/ \E answer \in {ANSWER, None} :
             Step(h, Send([tasks[h] EXCEPT !.answer = answer],
                          ExtractAnswer(answer), "sendFinal"))
       \/ Step(h, Except(tasks[h]))

\* lines 141-143: response.text() returns or raises
TextReturns(h) ==
    /\ CanRun(h)
    /\ tasks[h].pc = "readText"
    /\ \/ Step(h, Send([tasks[h] EXCEPT !.error_text = RAW_BODY],
                       GenFailureReply(RAW_BODY), "sendFinal"))
       \/ Step(h, Except(tasks[h]))

\* lines 97-98, 115-116, 139, 143, 147: the send of a final reply returns, the
\* handler returns
ReplyReturns(h) ==
    /\ CanRun(h)
    /\ tasks[h].pc \in {"sendFinal", "sendError"}
    /\ \E r \in SendOutcomes : Finish(h)

----------------------------------------------------------------------------
\* handle_callback_query

\* lines 59-61
HandleCallbackStart(h) ==
    /\ CanRun(h)
    /\ tasks[h].kind = "callback"
    /\ tasks[h].pc = "start"
    /\ LET t == tasks[h]
           chat_id == CallbackChatId(t.msg)
       IN  IF chat_id # None
           THEN Step(h, Send([t EXCEPT !.chat_id = chat_id], UNSUPPORTED, "sendNotice"))
           ELSE Finish(h)

\* line 61: the notice's send returns, the handler returns
NoticeReturns(h) ==
    /\ CanRun(h)
    /\ tasks[h].pc = "sendNotice"
    /\ \E r \in SendOutcomes : Finish(h)

Handler(h) ==
    \/ HandleTextStart(h) \/ GreetingReturns(h) \/ AckReturns(h)
    \/ EmbeddingReturns(h) \/ SearchReturns(h) \/ GenerationReturns(h)
    \/ JsonReturns(h) \/ TextReturns(h) \/ ReplyReturns(h)
    \/ HandleCallbackStart(h) \/ NoticeReturns(h)

\* The observer variables stay as they are when a run is not observed.
Unobserved == UNCHANGED <<arrivals, log>>

Next ==
    \/ Poller /\ Unobserved
    \/ \E h \in 1..MaxTasks : Handler(h) /\ Unobserved

Spec == Init /\ [][Next]_vars

----------------------------------------------------------------------------
\* Observed runs: the same program, with every pass of the for loop counted
\* and every task stamped with the number of the pass that created it.  A run
\* is observed for MaxEvents updates.

\* One update payload of each shape main() tells apart, and of each flow.
ObservedMsgs ==
    { Msg(FALSE, TRUE, Question, FALSE, TRUE, "c1", "group", TRUE, "u1"),
      Msg(FALSE, TRUE, CmdStart, FALSE, TRUE, None, "private", TRUE, "u2"),
      Msg(FALSE, FALSE, <<>>, TRUE, TRUE, None, "private", TRUE, "u2"),
      Msg(FALSE, FALSE, <<>>, FALSE, TRUE, "c1", "group", TRUE, "u1"),
      Msg(TRUE, FALSE, <<>>, FALSE, FALSE, None, None, FALSE, None) }

ObservedUpdates == { u \in WellFormedUpdates : u.message \in ObservedMsgs }

\* lines 174-180: get_updates returns a batch, within what is left to observe
GetUpdatesReturnsObserved ==
    /\ GetUpdatesReturns
    /\ pending' <= MaxEvents - arrivals
    /\ Unobserved

\* lines 180-194, one pass of the for loop, counted
IterateObserved ==
    /\ pollPc = "iter"
    /\ pending > 0
    /\ \E update \in ObservedUpdates : Pass(update, arrivals + 1)
    /\ arrivals' = arrivals + 1
    /\ log' = log

PollerObserved ==
    \/ TestConnection /\ Unobserved
    \/ GetUpdatesReturnsObserved
    \/ GetUpdatesRaises /\ Unobserved
    \/ IterateObserved
    \/ NextPoll /\ Unobserved
    \/ Wake /\ Unobserved

HandlerObserved(h) == Handler(h) /\ Unobserved

NextObserved == PollerObserved \/ \E h \in 1..MaxTasks : HandlerObserved(h)

SpecObserved == Init /\ [][NextObserved]_vars

\* The ids of the updates the for loop has gone through in the current batch.
BatchIds ==
    IF seenMax = -1 THEN {}
    ELSE LET first == CHOOSE i \in 1..Len(log) :
                          log[i].first /\ \A j \in (i + 1)..Len(log) : ~log[j].first
         IN  { log[j].id : j \in first..Len(log) }

\* The platform honours the cursor: an update it returns has an id, the id is
\* not below the offset of the request, and a batch holds an event once.
CursorHonoured(u) == u.hasId /\ u.update_id >= reqOffset /\ u.update_id \notin BatchIds

\* What the loop makes of an update depends on these shapes.
Shape(m) ==
    IF m.isNull THEN "none"
    ELSE IF m.hasText THEN "text"
    ELSE IF m.hasCb THEN "button"
    ELSE "other"

LogEntry(u, first, reached, created) ==
    [id |-> u.update_id, first |-> first, shape |-> Shape(u.message),
     reached |-> reached, created |-> created]

\* lines 180-194, one pass of the for loop over an update of a platform that
\* honours the cursor, logged with what main() made of it; when the pass raises
\* (lines 196-198) the update that follows it in the batch is logged as not
\* reached
IterateHonest ==
    /\ pollPc = "iter"
    /\ pending > 0
    /\ \E update \in { u \in ObservedUpdates : CursorHonoured(u) } :
          LET entry == LogEntry(update, seenMax = -1, TRUE, Len(tasks') - Len(tasks))
          IN  /\ Pass(update, Len(log) + 1)
              /\ IF update.message.isNull /\ pending > 1
                 THEN \E rest \in { u \in ObservedUpdates :
                                      CursorHonoured(u) /\ u.update_id # update.update_id } :
                          log' = log \o <<entry, LogEntry(rest, FALSE, FALSE, 0)>>
                 ELSE log' = Append(log, entry)
    /\ arrivals' = arrivals + 1

PollerHonest ==
    \/ TestConnection /\ Unobserved
    \/ GetUpdatesReturnsObserved
    \/ GetUpdatesRaises /\ Unobserved
    \/ IterateHonest
    \/ NextPoll /\ Unobserved
    \/ Wake /\ Unobserved

NextHonest == PollerHonest \/ \E h \in 1..MaxTasks : HandlerObserved(h)

SpecHonest == Init /\ [][NextHonest]_vars

\* The event loop runs every ready task and resumes main() when its await is
\* over; every call to a service returns or fails.
FairSpec ==
    /\ SpecObserved
    /\ WF_vars(PollerObserved)
    /\ \A h \in 1..MaxTasks : SF_vars(HandlerObserved(h))

----------------------------------------------------------------------------
\* Vocabulary of the properties.

\* The origin chat of an event as the data model of the specification resolves
\* it: the explicit chat identifier, else the sender's user identifier when the
\* conversation is private, else none.
OriginChat(m) ==
    IF m.chatIsDict /\ m.chat_id # None THEN m.chat_id
    ELSE IF m.chatIsDict /\ m.type = "private" /\ m.hasFrom THEN m.login
    ELSE None

CommandText(text) == StartsWith(text, CmdStart) \/ StartsWith(text, CmdHelp)

Texts(t) == { t.sent[i].text : i \in 1..Len(t.sent) }
Calls(t) == { t.calls[i] : i \in 1..Len(t.calls) }

\* The replies of a handler that end a question: everything but the acknowledgment.
FinalReplies(t) == { i \in 1..Len(t.sent) : t.sent[i].text # SEARCHING }

Live == 1..Len(tasks)

----------------------------------------------------------------------------
\* C1: the polling cursor never decreases, whatever the step: a poll that
\* succeeds, is empty or fails, and whatever identifiers the updates carry.
CursorNeverDecreases == [][offset' >= offset]_vars

\* An update with an identifier below the cursor has been iterated.
StaleUpdateSeen == pollPc = "iter" /\ seenMax >= 0 /\ seenMax + 1 < offset

\* C2 (as stated): once a non-empty batch is fully iterated, the cursor is one
\* past the highest identifier seen in the batch.
CursorIsOnePastHighest ==
    (pollPc = "iter" /\ pending = 0) => offset = seenMax + 1

\* C2 (amended): once a non-empty batch is fully iterated, the cursor is the
\* larger of the cursor the poll was issued with and one past the highest
\* identifier seen in the batch, whatever the shape of the updates and whether
\* or not their handlers have finished.
CursorIsMaxOfOldAndOnePastHighest ==
    (pollPc = "iter" /\ pending = 0) => offset = Max(reqOffset, seenMax + 1)

\* A batch whose only update has an unrecognized shape (no task was created for
\* it) is fully iterated and the cursor has moved past it.
CursorPassedUnrecognized ==
    /\ pollPc = "iter"
    /\ pending = 0
    /\ tasks = <<>>
    /\ offset = seenMax + 1
    /\ offset > reqOffset

\* C3: a get_updates call that fails leaves the cursor and the tasks as they
\* were, and the poll issued after it carries the same cursor as the failed one.
FailedPollKeepsCursor ==
    [][ /\ (pollPc = "polling" /\ pollPc' = "sleep5") =>
              (offset' = offset /\ tasks' = tasks)
        /\ (caught = "poll" /\ pollPc' = "polling") => reqOffset' = reqOffset ]_vars

\* The loop sleeps after a failed poll that was issued with a cursor above zero.
SleepingAfterFailedPoll ==
    pollPc = "sleep5" /\ caught = "poll" /\ reqOffset > 0 /\ offset = reqOffset

\* C4: for an event without a resolvable origin chat, no outbound send is
\* attempted and no embedding, search or generation call is made.
UnresolvableIsIgnored ==
    \A h \in Live :
        OriginChat(tasks[h].msg) = None => tasks[h].sent = <<>> /\ tasks[h].calls = <<>>

\* C5: a text message with a resolvable chat whose text starts with /start or
\* /help gets the greeting, to that chat, and nothing of the retrieval
\* pipeline: no acknowledgment, no embedding, search or generation call.
CommandGetsGreetingOnly ==
    \A h \in Live :
        LET t == tasks[h] IN
        (t.kind = "text" /\ OriginChat(t.msg) # None /\ CommandText(t.msg.text)) =>
            /\ t.calls = <<>>
            /\ \/ t.pc = "start" /\ t.sent = <<>>
               \/ /\ t.pc = "sendGreeting"
                  /\ t.sent = <<[to |-> OriginChat(t.msg), text |-> GREETING]>>

\* The greeting is being sent for a text that starts with /help and goes on.
GreetingSentForHelp ==
    \E h \in Live :
        /\ tasks[h].pc = "sendGreeting"
        /\ tasks[h].msg.text = HelpMe
        /\ tasks[h].sent = <<[to |-> "c1", text |-> GREETING]>>

\* C6: when the vector-store search returns no hit, the no-information reply
\* is sent to the chat and the generation service is not called.
NoHitsGetsNoInfoReply ==
    \A h \in Live :
        LET t == tasks[h] IN
        t.search_results = "empty" =>
            /\ t.pc = "sendFinal"
            /\ t.sent = <<[to |-> OriginChat(t.msg), text |-> SEARCHING],
                          [to |-> OriginChat(t.msg), text |-> NO_INFO]>>
            /\ "generate" \notin Calls(t)

\* A search has returned no hit.
SearchCameBackEmpty ==
    \E h \in Live : tasks[h].search_results = "empty" /\ "search" \in Calls(tasks[h])

\* C7 (as stated): after a generation response whose status is not 2xx, the
\* reply sent is the generation-failure reply, and the raw body is in no
\* outbound message.
Non2xxGetsGenerationFailure ==
    \A h \in Live :
        LET t == tasks[h] IN
        /\ RAW_BODY \notin Texts(t)
        /\ (t.status >= 300 /\ t.pc # "readText") =>
              /\ t.pc = "sendFinal"
              /\ t.sent[Len(t.sent)].text = GEN_FAILED

\* C7 (amended): after a generation response whose status is not 2xx, the reply
\* sent is the generation-failure reply when the body of the response was read,
\* and the internal-error reply when reading the body raised; the raw body is in
\* no outbound message.
Non2xxGetsFixedReply ==
    \A h \in Live :
        LET t == tasks[h] IN
        /\ RAW_BODY \notin Texts(t)
        /\ (t.status >= 300 /\ t.pc # "readText") =>
              \/ /\ t.error_text # None
                 /\ t.pc = "sendFinal"
                 /\ t.sent[Len(t.sent)].text = GEN_FAILED
              \/ /\ t.error_text = None
                 /\ t.pc = "sendError"
                 /\ t.sent[Len(t.sent)].text = INTERNAL_ERROR

\* The body of a non-2xx response was read and the generation-failure reply is
\* being sent.
GenerationFailureReplied ==
    \E h \in Live :
        /\ tasks[h].status = 500
        /\ tasks[h].error_text = RAW_BODY
        /\ tasks[h].sent[Len(tasks[h].sent)].text = GEN_FAILED

\* C8: every path through the retrieval pipeline ends in exactly one send of a
\* final reply: a handler that has acknowledged the question never holds two
\* final replies, and it returns only with one.
ExactlyOneFinalReply ==
    [][ /\ \A h \in 1..Len(tasks') : Cardinality(FinalReplies(tasks'[h])) <= 1
        /\ \A h \in Live :
              (SEARCHING \in Texts(tasks[h]) /\ tasks' = RemoveAt(tasks, h)) =>
                  /\ Cardinality(FinalReplies(tasks[h])) = 1
                  /\ tasks[h].pc \in {"sendFinal", "sendError"} ]_vars

\* A handler is sending its one final reply after an error in the pipeline.
OneFinalReplyAfterError ==
    \E h \in Live :
        /\ tasks[h].pc = "sendError"
        /\ tasks[h].sent = <<[to |-> "c1", text |-> SEARCHING],
                             [to |-> "c1", text |-> INTERNAL_ERROR]>>

\* A step in which handler h fails: an exception leaves it, or its except
\* clause takes over.
Escapes(h) ==
    /\ tasks[h].kind = "text"
    /\ tasks[h].pc = "start"
    /\ ~tasks[h].msg.chatIsDict
    /\ tasks[h].msg.hasFrom
    /\ tasks' = RemoveAt(tasks, h)

Caught(h) ==
    /\ Len(tasks') = Len(tasks)
    /\ tasks[h].pc # "sendError"
    /\ tasks'[h].pc = "sendError"

\* C9: a failure inside one handler touches neither the poll loop nor another
\* handler: the step changes no variable of main() and no other task.
HandlerFailureIsIsolated ==
    [][ \A h \in Live :
          /\ Escapes(h) => UNCHANGED pollerVars
          /\ Caught(h) =>
                /\ UNCHANGED pollerVars
                /\ \A g \in Live : g # h => tasks'[g] = tasks[g] ]_vars

\* A handler is in its except clause while another handler is in flight and a
\* poll is outstanding.
FailureBesideOthers ==
    \E h, g \in Live :
        /\ h # g
        /\ tasks[h].pc = "sendError"
        /\ tasks[g].pc \in {"sendAck", "sendGreeting", "sendNotice", "embedding"}
        /\ pollPc = "polling"

\* The awaits and calls in which a handler waits for the network.
InNetworkCall(t) ==
    t.pc \in {"sendGreeting", "sendAck", "embedding", "searching", "generating",
              "readJson", "readText", "sendFinal", "sendError", "sendNotice"}

\* C10: while a handler waits in a network call, the vector-store search
\* included, and main() itself is suspended in its poll or its sleep, the poll
\* loop and every other handler can take their next step.
WaitingHandlerBlocksNobody ==
    \A h \in Live :
        (InNetworkCall(tasks[h]) /\ pollPc \in {"polling", "sleep1", "sleep5"}) =>
            /\ ENABLED Poller
            /\ \A g \in Live : g # h => ENABLED Handler(g)

\* The steps of the retrieval pipeline in which a failure can be raised.
PipelinePcs == {"embedding", "searching", "generating", "readJson", "readText"}

\* C11: a failure of the embedding step, the search, the context assembly or
\* the generation request does not leave the handler: the handler stays alive
\* through it, sends the apology to the chat and only then returns.
PipelineFailureBecomesApology ==
    [][ /\ \A h \in Live :
              tasks[h].pc \in PipelinePcs => tasks' # RemoveAt(tasks, h)
        /\ \A h \in 1..Len(tasks') :
              tasks'[h].pc = "sendError" =>
                  tasks'[h].sent = <<[to |-> OriginChat(tasks'[h].msg), text |-> SEARCHING],
                                     [to |-> OriginChat(tasks'[h].msg), text |-> INTERNAL_ERROR]>> ]_vars

\* The search or the context assembly has failed and the apology is being sent.
ApologyAfterSearchFailure ==
    \E h \in Live :
        /\ tasks[h].pc = "sendError"
        /\ tasks[h].calls = <<"embed", "search">>
        /\ tasks[h].sent[2] = [to |-> "c1", text |-> INTERNAL_ERROR]

\* C12: a button interaction with a resolvable origin chat gets the
\* unsupported-feature notice, sent to that chat, and no retrieval step.
ButtonGetsNotice ==
    \A h \in Live :
        LET t == tasks[h] IN
        (t.kind = "callback" /\ OriginChat(t.msg) # None) =>
            /\ t.calls = <<>>
            /\ \/ t.pc = "start" /\ t.sent = <<>>
               \/ /\ t.pc = "sendNotice"
                  /\ t.sent = <<[to |-> OriginChat(t.msg), text |-> UNSUPPORTED]>>

\* C13: a question with a resolvable chat is acknowledged before anything else:
\* the acknowledgment is the first send and precedes the embedding request, and
\* when the generation answers 200 with answer A the sends are the
\* acknowledgment and then A.
AckThenAnswer ==
    \A h \in Live :
        LET t == tasks[h]
            ack == [to |-> OriginChat(t.msg), text |-> SEARCHING]
        IN  (t.kind = "text" /\ OriginChat(t.msg) # None /\ ~CommandText(t.msg.text)) =>
                /\ t.calls # <<>> => Len(t.sent) > 0
                /\ Len(t.sent) > 0 => t.sent[1] = ack
                /\ \A i \in 2..Len(t.sent) : t.sent[i].text # SEARCHING
                /\ t.answer = ANSWER =>
                      t.sent = <<ack, [to |-> OriginChat(t.msg), text |-> ANSWER]>>

\* The answer of the generation service is being sent after the acknowledgment.
AnswerBeingSent ==
    \E h \in Live :
        /\ tasks[h].answer = ANSWER
        /\ tasks[h].pc = "sendFinal"
        /\ tasks[h].calls = <<"embed", "search", "generate">>

\* C14: whatever the type of the event, every reply goes to the origin chat as
\* resolved in one order: the explicit chat identifier, else the sender when
\* the conversation is private.
RepliesGoToOriginChat ==
    \A h \in Live :
        \A i \in 1..Len(tasks[h].sent) : tasks[h].sent[i].to = OriginChat(tasks[h].msg)

\* The last message a handler has sent.
LastText(t) == t.sent[Len(t.sent)].text

\* The handler has passed the reading of the generation response.
ResponseHandled(t) == t.status # 0 /\ t.pc \in {"sendFinal", "sendError"}

\* C19: a generation response with a 2xx status is answered with its answer
\* field, or with the placeholder when the field is absent, and the
\* generation-failure reply is sent only for a status outside 2xx.
SuccessStatusGetsAnswer ==
    \A h \in Live :
        LET t == tasks[h] IN
        /\ (ResponseHandled(t) /\ t.status \in 200..299) =>
               LastText(t) \in {ANSWER, EMPTY_ANSWER}
        /\ GEN_FAILED \in Texts(t) => t.status \notin 200..299

\* C19 as the code has it: a response with status 200 whose body is read as
\* JSON is answered with its answer field, or with the placeholder when the
\* field is absent; when the reading of that body fails the reply is the
\* internal-error one; the generation-failure reply is sent only for a status
\* other than 200.
Status200GetsAnswer ==
    \A h \in Live :
        LET t == tasks[h] IN
        /\ (ResponseHandled(t) /\ t.status = 200) =>
               \/ /\ t.pc = "sendFinal"
                  /\ t.answer # "unset"
                  /\ LastText(t) = (IF t.answer = None THEN EMPTY_ANSWER ELSE t.answer)
               \/ /\ t.pc = "sendError"
                  /\ t.answer = "unset"
                  /\ LastText(t) = INTERNAL_ERROR
        /\ GEN_FAILED \in Texts(t) => t.status \notin {0, 200}

\* A 200 response without the answer field is being answered.
PlaceholderBeingSent ==
    \E h \in Live :
        /\ tasks[h].status = 200
        /\ tasks[h].answer = None
        /\ tasks[h].pc = "sendFinal"

\* The identifiers of a chat or of a sender that an event carries.
OwnIds(m) == {m.chat_id, m.login} \ {None}

\* C20: with handlers of different chats running side by side, every message a
\* handler sends goes to the chat it resolved from its own event.
NoCrossChatSend ==
    \A h \in Live :
        \A i \in 1..Len(tasks[h].sent) :
            /\ tasks[h].sent[i].to = tasks[h].chat_id
            /\ tasks[h].sent[i].to \in OwnIds(tasks[h].msg)

\* Two handlers of different chats have both sent.
TwoChatsInFlight ==
    \E g, h \in Live :
        /\ tasks[g].sent # <<>> /\ tasks[h].sent # <<>>
        /\ tasks[g].chat_id # tasks[h].chat_id
        /\ OwnIds(tasks[g].msg) \cap OwnIds(tasks[h].msg) = {}

\* The updates of the log that the for loop has reached.
Reached == { i \in 1..Len(log) : log[i].reached }

\* C15: with a platform that returns only events at or past the requested
\* cursor, every inbound text message or button interaction gets exactly one
\* task and an event of any other shape gets none: an event goes through the
\* loop once, whatever polls failed or came back empty in between, no two tasks
\* are for the same event, and an event the loop has not reached yet is still
\* at or past the cursor, so that a later poll brings it.
ExactlyOneTaskPerEvent ==
    /\ \A i \in Reached :
          log[i].created = (IF log[i].shape \in {"text", "button"} THEN 1 ELSE 0)
    /\ \A i, j \in Reached : i < j => log[i].id # log[j].id
    /\ \A g, h \in Live : g # h => tasks[g].ev # tasks[h].ev
    /\ \A h \in Live :
          /\ tasks[h].ev \in Reached
          /\ log[tasks[h].ev].shape = (IF tasks[h].kind = "text" THEN "text" ELSE "button")
    /\ \A i \in 1..Len(log) :
          (~log[i].reached /\ log[i].shape \in {"text", "button"}) =>
              \/ log[i].id >= offset
              \/ \E j \in Reached : j > i /\ log[j].id = log[i].id

\* C16: tasks are spawned in the order the loop reaches the events, within a
\* batch and across batches (tasks lists the unfinished tasks in the order
\* create_task made them, ev is the number of the pass that made the task), and
\* when a task is spawned the cursor is already past its event.
SpawnedInArrivalOrder ==
    /\ [](\A g, h \in Live : g < h => tasks[g].ev < tasks[h].ev)
    /\ [][Len(tasks') > Len(tasks) =>
             /\ Len(tasks') = Len(tasks) + 1
             /\ \E h \in 1..Len(tasks') : tasks'[h].ev = arrivals' /\ tasks'[h].pc = "start"
             /\ offset' > seenMax']_vars

\* The tasks of the first and of the third event are unfinished, the second
\* event got no task.
TasksOfFirstAndThirdEvent ==
    /\ Len(tasks) = 2
    /\ tasks[1].ev = 1
    /\ tasks[2].ev = 3

\* main() is inside its while loop.
LoopStarted == pollPc \notin {"init", "exited"}

\* C17: once the loop has started nothing ends it: after a failed poll or a
\* failed pass over a batch the loop sleeps and then polls again, every poll
\* comes back, and a new poll is always issued again.
LoopPollsForever ==
    /\ [][LoopStarted => LoopStarted']_vars
    /\ (pollPc = "sleep5") ~> (pollPc = "polling")
    /\ (LoopStarted /\ pollPc = "polling") ~> (pollPc # "polling")
    /\ (LoopStarted /\ pollPc # "polling") ~> (pollPc = "polling")

\* The loop sleeps after a pass over a batch has raised.
SleepingAfterFailedPass == pollPc = "sleep5" /\ caught = "iter" /\ arrivals > 0

\* The handler of the update that the for loop reached as its s-th is running.
Running(s) == \E h \in Live : tasks[h].ev = s

\* C18: every handler that was spawned ends, and the handler of a question
\* with a resolvable chat ends only after it has sent a final reply.
HandlersTerminate ==
    /\ \A s \in 1..MaxEvents : Running(s) ~> ~Running(s)
    /\ [][\A h \in Live :
              ( /\ tasks' = RemoveAt(tasks, h)
                /\ tasks[h].kind = "text"
                /\ OriginChat(tasks[h].msg) # None
                /\ ~CommandText(tasks[h].msg.text) )
              => /\ tasks[h].pc \in {"sendFinal", "sendError"}
                 /\ Len(tasks[h].sent) = 2]_vars

\* A question handler is sending its final reply while another handler waits.
FinalReplyBesideWaitingHandler ==
    \E g, h \in Live :
        /\ g # h
        /\ tasks[h].ev > 0
        /\ tasks[h].pc = "sendFinal"
        /\ tasks[h].calls = <<"embed", "search", "generate">>

====
